---- MODULE Spec2Model ----
(***************************************************************************)
(* TOON support of the object-generation pipeline:                         *)
(*   - secureToonParse / filter / safeParseToon   (provider-utils)         *)
(*   - parsePartialToon / repairPartialToon / looksComplete                *)
(*   - parseAndValidateObjectResult(WithRepair)   (generate-object)        *)
(*                                                                         *)
(* A text is a sequence of characters.  The words `__proto__`,             *)
(* `constructor`, `prototype` and `null` are written as the single         *)
(* symbols "P", "C", "T" and "n"; "a" is any other word character.         *)
(***************************************************************************)
EXTENDS Integers, Sequences, FiniteSets, TLC

\* ---------------------------------------------------------------- bounds
\* Longest text, in lines, handed to the TOON functions.
MaxLines == 2
\* Longest text, in lines, handed to the orchestrator and returned by repairText.
MaxOrchLines == 1

\* ------------------------------------------------------------ characters
NL == "\n"
SP == " "
COLON == ":"
QUOTE == "\""
PROTO == "P"
CONSTRUCTOR == "C"
PROTOTYPE == "T"
NULLWORD == "n"

\* Spaces per indentation level (the decoder's default).
IndentSize == 2

\* String.prototype.trimEnd / trim and the regex class \s, over the alphabet.
IsWhitespace(c) == c \in {SP, NL}

RECURSIVE TrimEnd(_)
TrimEnd(s) ==
  IF s = <<>> THEN s
  ELSE IF IsWhitespace(s[Len(s)]) THEN TrimEnd(SubSeq(s, 1, Len(s) - 1))
  ELSE s

RECURSIVE TrimStart(_)
TrimStart(s) ==
  IF s = <<>> THEN s
  ELSE IF IsWhitespace(s[1]) THEN TrimStart(Tail(s))
  ELSE s

Trim(s) == TrimStart(TrimEnd(s))

\* text.split('\n')
RECURSIVE Split(_)
Split(s) ==
  IF \E i \in 1..Len(s) : s[i] = NL
  THEN LET i == CHOOSE k \in 1..Len(s) :
                  s[k] = NL /\ \A j \in 1..(k - 1) : s[j] # NL
       IN <<SubSeq(s, 1, i - 1)>> \o Split(SubSeq(s, i + 1, Len(s)))
  ELSE <<s>>

\* lines.join('\n')
RECURSIVE Join(_)
Join(lines) ==
  IF lines = <<>> THEN <<>>
  ELSE IF Len(lines) = 1 THEN lines[1]
  ELSE lines[1] \o <<NL>> \o Join(Tail(lines))

\* ----------------------------------------------------------------- values
\* JSONValue: null, string or object (an ordered list of key/value pairs).
VNull == [t |-> "null", s |-> <<>>, kv |-> <<>>]
VStr(s) == [t |-> "string", s |-> s, kv |-> <<>>]
VObj(kv) == [t |-> "object", s |-> <<>>, kv |-> kv]

\* Object.prototype.hasOwnProperty.call(node, key)
HasOwn(node, key) ==
  node.t = "object" /\ \E i \in 1..Len(node.kv) : node.kv[i].k = <<key>>

\* node[key], for an own key
Get(node, key) ==
  node.kv[CHOOSE i \in 1..Len(node.kv) : node.kv[i].k = <<key>>].v

\* ------------------------------------------------ the grammar decoder
\* decode() of @toon-format/toon with its defaults (indent 2, strict), on the
\* key/value, nested-object and primitive subset of the notation.  What
\* decode does with a text without content differs between releases of the
\* library and is left open in the variable `decoder`:
\*   emptyInput: "throws" | "object"
VARIABLES decoder

DecoderOptions == [emptyInput : {"throws", "object"}]

Fail(msg) == [ok |-> FALSE, v |-> VNull, err |-> msg]
Ok(v) == [ok |-> TRUE, v |-> v, err |-> ""]

\* index of the first quote after position start, 0 if none
FindClosingQuote(content, start) ==
  IF \E i \in (start + 1)..Len(content) : content[i] = QUOTE
  THEN CHOOSE i \in (start + 1)..Len(content) :
         content[i] = QUOTE /\ \A j \in (start + 1)..(i - 1) : content[j] # QUOTE
  ELSE 0

FirstColon(content) ==
  IF \E i \in 1..Len(content) : content[i] = COLON
  THEN CHOOSE i \in 1..Len(content) :
         content[i] = COLON /\ \A j \in 1..(i - 1) : content[j] # COLON
  ELSE 0

LeadingSpaces(line) ==
  IF \A i \in 1..Len(line) : line[i] = SP THEN Len(line)
  ELSE (CHOOSE i \in 1..Len(line) :
          line[i] # SP /\ \A j \in 1..(i - 1) : line[j] = SP) - 1

IsBlankLine(line) == Trim(line) = <<>>

\* the non-blank lines with their depth
ParsedLine(line, indent) ==
  [depth |-> indent \div IndentSize,
   content |-> SubSeq(line, indent + 1, Len(line))]

ToParsedLines(text) ==
  LET Parsed(raw) ==
        [i \in 1..Len(raw) |-> ParsedLine(raw[i], LeadingSpaces(raw[i]))]
  IN Parsed(SelectSeq(Split(text), LAMBDA l : ~IsBlankLine(l)))

\* strict mode: indentation must be a multiple of the indent size
BadIndentation(text) ==
  LET Bad(raw) ==
        \E i \in 1..Len(raw) :
          ~IsBlankLine(raw[i]) /\ LeadingSpaces(raw[i]) % IndentSize # 0
  IN Bad(Split(text))

\* a quoted string literal t, c the position of its closing quote
ParseStringLiteral(t, c) ==
  IF c = 0 THEN Fail("SyntaxError: Unterminated string")
  ELSE IF c # Len(t)
  THEN Fail("SyntaxError: Unexpected characters after closing quote")
  ELSE Ok(VStr(SubSeq(t, 2, c - 1)))

ParsePrimitiveToken(token) ==
  LET Parse(t) ==
        IF t = <<>> THEN Ok(VStr(<<>>))
        ELSE IF t[1] = QUOTE THEN ParseStringLiteral(t, FindClosingQuote(t, 1))
        ELSE IF t = <<NULLWORD>> THEN Ok(VNull)
        ELSE Ok(VStr(t))
  IN Parse(Trim(token))

IsKeyValueLine(content) ==
  LET ColonAfter(c) ==
        c # 0 /\ \E i \in (c + 1)..Len(content) : content[i] = COLON
  IN IF content # <<>> /\ content[1] = QUOTE
     THEN ColonAfter(FindClosingQuote(content, 1))
     ELSE FirstColon(content) # 0

\* [ok, key, end]: the key and the position after its colon
KeyFail(msg) == [ok |-> FALSE, key |-> <<>>, end |-> 0, err |-> msg]

\* a quoted key, c the position of its closing quote
ParseQuotedKey(content, c) ==
  IF c = 0 THEN KeyFail("SyntaxError: Unterminated quoted key")
  ELSE IF c + 1 > Len(content) \/ content[c + 1] # COLON
  THEN KeyFail("SyntaxError: Missing colon after key")
  ELSE [ok |-> TRUE, key |-> SubSeq(content, 2, c - 1), end |-> c + 2,
        err |-> ""]

\* an unquoted key, i the position of the first colon
ParseUnquotedKey(content, i) ==
  IF i = 0 THEN KeyFail("SyntaxError: Missing colon after key")
  ELSE [ok |-> TRUE, key |-> Trim(SubSeq(content, 1, i - 1)), end |-> i + 1,
        err |-> ""]

ParseKeyToken(content) ==
  IF content # <<>> /\ content[1] = QUOTE
  THEN ParseQuotedKey(content, FindClosingQuote(content, 1))
  ELSE ParseUnquotedKey(content, FirstColon(content))

\* obj[key] = value on a plain object: the key `__proto__` reaches the
\* accessor of Object.prototype and defines no own key
ObjSet(kv, key, v) ==
  IF key = <<PROTO>> THEN kv
  ELSE IF \E i \in 1..Len(kv) : kv[i].k = key
  THEN LET i == CHOOSE j \in 1..Len(kv) : kv[j].k = key
       IN [kv EXCEPT ![i] = [k |-> key, v |-> v]]
  ELSE Append(kv, [k |-> key, v |-> v])

RECURSIVE DecodeObject(_, _, _, _, _)
RECURSIVE DecodeKeyValue(_, _, _)

FieldFail(i, msg) ==
  [ok |-> FALSE, key |-> <<>>, v |-> VNull, next |-> i, err |-> msg]
Field(key, v, next) ==
  [ok |-> TRUE, key |-> key, v |-> v, next |-> next, err |-> ""]

\* `key:` with nothing after the colon: the deeper lines under it, or {}
DecodeNested(lines, i, baseDepth, key) ==
  LET Nested(o) ==
        IF o.ok THEN Field(key, VObj(o.kv), o.next) ELSE FieldFail(i, o.err)
  IN IF i + 1 <= Len(lines) /\ lines[i + 1].depth > baseDepth
     THEN Nested(DecodeObject(lines, i + 1, baseDepth + 1, -1, <<>>))
     ELSE Field(key, VObj(<<>>), i + 1)

\* one `key: value` line, or `key:` and the deeper lines under it
DecodeKeyValue(lines, i, baseDepth) ==
  LET Primitive(key, p) ==
        IF p.ok THEN Field(key, p.v, i + 1) ELSE FieldFail(i, p.err)
      Value(key, rest) ==
        IF rest = <<>> THEN DecodeNested(lines, i, baseDepth, key)
        ELSE Primitive(key, ParsePrimitiveToken(rest))
      KeyValue(content, k) ==
        IF ~k.ok THEN FieldFail(i, k.err)
        ELSE Value(k.key, Trim(SubSeq(content, k.end, Len(content))))
  IN KeyValue(lines[i].content, ParseKeyToken(lines[i].content))

ObjectDone(acc, i) == [ok |-> TRUE, kv |-> acc, next |-> i, err |-> ""]

\* the fields at one depth, from line i on; computedDepth is -1 until the
\* first field fixes it
DecodeObject(lines, i, baseDepth, computedDepth, acc) ==
  LET Rest(cd, f) ==
        IF ~f.ok THEN [ok |-> FALSE, kv |-> <<>>, next |-> i, err |-> f.err]
        ELSE DecodeObject(lines, f.next, baseDepth, cd, ObjSet(acc, f.key, f.v))
      At(cd) ==
        IF lines[i].depth # cd THEN ObjectDone(acc, i)
        ELSE Rest(cd, DecodeKeyValue(lines, i, cd))
  IN IF i > Len(lines) THEN ObjectDone(acc, i)
     ELSE IF lines[i].depth < baseDepth THEN ObjectDone(acc, i)
     ELSE At(IF computedDepth = -1 THEN lines[i].depth ELSE computedDepth)

\* decodeValueFromLines: a single line that is no key/value line is a
\* primitive, anything else the fields of the root object
DecodeValueFromLines(lines) ==
  LET Root(o) == IF o.ok THEN Ok(VObj(o.kv)) ELSE Fail(o.err)
  IN IF Len(lines) = 0
     THEN IF decoder.emptyInput = "throws"
          THEN Fail("TypeError: Cannot decode empty input")
          ELSE Ok(VObj(<<>>))
     ELSE IF Len(lines) = 1 /\ ~IsKeyValueLine(lines[1].content)
     THEN ParsePrimitiveToken(lines[1].content)
     ELSE Root(DecodeObject(lines, 1, 0, -1, <<>>))

\* decode(text)
Decode(text) ==
  IF BadIndentation(text)
  THEN Fail("SyntaxError: Indentation must be exact multiple of indent size")
  ELSE DecodeValueFromLines(ToParsedLines(text))

\* ------------------------------------------------------ secureToonParse
\* suspectProtoRx = /"__proto__"\s*:/ and suspectConstructorRx = /"constructor"\s*:/
SuspectRx(word, text) ==
  \E i \in 1..Len(text) :
    /\ i + 3 <= Len(text)
    /\ text[i] = QUOTE /\ text[i + 1] = word /\ text[i + 2] = QUOTE
    /\ \E j \in (i + 3)..Len(text) :
         /\ text[j] = COLON
         /\ \A k \in (i + 3)..(j - 1) : IsWhitespace(text[k])

suspectProtoRx(text) == SuspectRx(PROTO, text)
suspectConstructorRx(text) == SuspectRx(CONSTRUCTOR, text)

ForbiddenProperty == "SyntaxError: Object contains forbidden prototype property"
\* Object.prototype.hasOwnProperty.call(null, ...) inside filter
NullToObject == "TypeError: Cannot convert undefined or null to object"

\* the values of node that are objects, in key order
RECURSIVE ObjectValues(_)
ObjectValues(kv) ==
  IF kv = <<>> THEN <<>>
  ELSE (IF kv[1].v.t = "object" THEN <<kv[1].v>> ELSE <<>>)
         \o ObjectValues(Tail(kv))

\* filter's breadth-first scan of one level (nodes from position i on) and of
\* the levels below (next); "" when the scan passes, else the error thrown
RECURSIVE FilterScan(_, _, _)
FilterScan(nodes, i, next) ==
  IF i > Len(nodes)
  THEN IF next = <<>> THEN "" ELSE FilterScan(next, 1, <<>>)
  ELSE LET node == nodes[i]
       IN IF node.t # "object" THEN FilterScan(nodes, i + 1, next)
          ELSE IF HasOwn(node, PROTO) THEN ForbiddenProperty
          ELSE IF HasOwn(node, CONSTRUCTOR) /\ Get(node, CONSTRUCTOR).t = "null"
          THEN NullToObject
          ELSE IF HasOwn(node, CONSTRUCTOR)
                  /\ HasOwn(Get(node, CONSTRUCTOR), PROTOTYPE)
          THEN ForbiddenProperty
          ELSE FilterScan(nodes, i + 1, next \o ObjectValues(node.kv))

Returns(v) == [threw |-> FALSE, error |-> "", value |-> v]
Throws(e) == [threw |-> TRUE, error |-> e, value |-> VNull]

\* filter(obj)
filter(obj) ==
  LET Scanned(e) == IF e = "" THEN Returns(obj) ELSE Throws(e)
  IN Scanned(FilterScan(<<obj>>, 1, <<>>))

\* secureToonParse(text)
\* Screen without the pre-screen of the text: every decoded object is scanned
ScreenAlwaysScans(text, d) ==
  IF ~d.ok THEN Throws(d.err)
  ELSE IF d.v.t # "object" THEN Returns(d.v)
  ELSE filter(d.v)

\* secureToonParse after decode(text) has given d
Screen(text, d) ==
  IF ~d.ok THEN Throws(d.err)
  ELSE IF d.v.t # "object" THEN Returns(d.v)
  ELSE IF ~suspectProtoRx(text) /\ ~suspectConstructorRx(text)
  THEN Returns(d.v)
  ELSE filter(d.v)

secureToonParse(text) == Screen(text, Decode(text))

\* ---------------------------------------------------------- safeParseToon
\* errors of @ai-sdk/provider: name, the text or value they are about, cause
NoError == [name |-> "", text |-> <<>>, cause |-> "", value |-> VNull]
JSONParseError(text, cause) ==
  [name |-> "AI_JSONParseError", text |-> text, cause |-> cause, value |-> VNull]
TypeValidationError(value, cause) ==
  [name |-> "AI_TypeValidationError", text |-> <<>>, cause |-> cause,
   value |-> value]
Undefined == [defined |-> FALSE, v |-> VNull]
Defined(v) == [defined |-> TRUE, v |-> v]

\* schema?: FlexibleSchema<T>: none, or one of a few validators
NoSchema == "none"
Schemas == {"unknown", "coerce", "object", "throws"}

\* what a validator makes of a value it transforms
Coerced(value) == VObj(<<[k |-> <<"coerced">>, v |-> value]>>)

\* the validator of a schema applied to a value
SchemaValidate(schema, value) ==
  IF schema = "unknown" THEN [outcome |-> "ok", value |-> value]
  ELSE IF schema = "coerce" THEN [outcome |-> "ok", value |-> Coerced(value)]
  ELSE IF schema = "object"
  THEN IF value.t = "object" THEN [outcome |-> "ok", value |-> value]
       ELSE [outcome |-> "fail", value |-> VNull]
  ELSE [outcome |-> "throw", value |-> VNull]

\* safeValidateTypes({ value, schema }): the validator's value with the value
\* it was given as rawValue, or a TypeValidationError
safeValidateTypes(value, schema) ==
  LET Result(validated) ==
        IF validated.outcome = "ok"
        THEN [success |-> TRUE, value |-> validated.value,
              rawValue |-> Defined(value), error |-> NoError]
        ELSE [success |-> FALSE, value |-> VNull, rawValue |-> Undefined,
              error |-> TypeValidationError(value, "Type validation failed")]
  IN Result(SchemaValidate(schema, value))

\* the return without a schema written as { success, value }: no rawValue
safeParseToonNoRawValue(text, schema) ==
  LET Caught(cause) ==
        [success |-> FALSE, value |-> VNull, rawValue |-> Undefined,
         error |-> JSONParseError(text, cause)]
      Result(r) ==
        IF r.threw THEN Caught(r.error)
        ELSE IF schema = NoSchema
        THEN [success |-> TRUE, value |-> r.value,
              rawValue |-> Undefined, error |-> NoError]
        ELSE IF SchemaValidate(schema, r.value).outcome = "throw"
        THEN Caught("validator")
        ELSE safeValidateTypes(r.value, schema)
  IN Result(secureToonParse(text))

\* safeParseToon({ text, schema }): what secureToonParse or the validation
\* throws is never a JSONParseError, so it is always wrapped
safeParseToonWith(text, schema) ==
  LET Caught(cause) ==
        [success |-> FALSE, value |-> VNull, rawValue |-> Undefined,
         error |-> JSONParseError(text, cause)]
      Result(r) ==
        IF r.threw THEN Caught(r.error)
        ELSE IF schema = NoSchema
        THEN [success |-> TRUE, value |-> r.value,
              rawValue |-> Defined(r.value), error |-> NoError]
        ELSE IF SchemaValidate(schema, r.value).outcome = "throw"
        THEN Caught("validator")
        ELSE safeValidateTypes(r.value, schema)
  IN Result(secureToonParse(text))

\* safeParseToon({ text }), no schema
safeParseToon(text) == safeParseToonWith(text, NoSchema)

\* ------------------------------------------------------------------ texts
\* The lines texts are made of.
LineSet ==
  { <<"a", COLON, SP, "a">>,                       \* a: a
    <<"a", COLON>>,                                \* a:
    <<SP, SP, "a", COLON, SP, "a">>,               \*   a: a
    <<CONSTRUCTOR, COLON>>,                        \* constructor:
    <<SP, SP, PROTOTYPE, COLON, SP, "a">>,         \*   prototype: a
    <<PROTO, COLON, SP, "a">>,                     \* __proto__: a
    <<QUOTE, PROTO, QUOTE, COLON, SP, "a">>,       \* "__proto__": a
    <<SP, SP, QUOTE, PROTO, QUOTE, COLON, SP, "a">>, \*   "__proto__": a
    <<QUOTE, CONSTRUCTOR, QUOTE, COLON>>,          \* "constructor":
    <<QUOTE, CONSTRUCTOR, QUOTE, COLON, SP, NULLWORD>>, \* "constructor": null
    <<"a", QUOTE, PROTO, QUOTE, COLON, SP, "a">>,  \* a"__proto__": a
    <<"a", COLON, SP, QUOTE, "a", QUOTE>>,         \* a: "a"
    <<"a">>,                                       \* a
    <<NULLWORD>>,                                  \* null
    <<>> }                                         \* (blank)

Prefixes(s) == { SubSeq(s, 1, k) : k \in 0..Len(s) }

LineSeqs(n) == UNION { [1..m -> LineSet] : m \in 1..n }

\* every text of at most MaxLines lines, cut anywhere (a streamed buffer)
Texts == UNION { Prefixes(Join(ls)) : ls \in LineSeqs(MaxLines) }

\* ------------------------------------------------------- parsePartialToon
\* looksComplete(line)
looksComplete(line) ==
  LET quoteCount(trimmed) ==
        Cardinality({ i \in 1..Len(trimmed) : trimmed[i] = QUOTE })
      Complete(trimmed) ==
        IF Len(trimmed) = 0 THEN TRUE
        ELSE IF trimmed[Len(trimmed)] = COLON THEN TRUE
        ELSE IF quoteCount(trimmed) % 2 # 0 THEN FALSE
        ELSE TRUE
  IN Complete(TrimEnd(line))

NullText == [isNull |-> TRUE, text |-> <<>>]
SomeText(t) == [isNull |-> FALSE, text |-> t]

\* RepairLoop counting upwards (for i = 0; i <= lines.length; i++): the
\* shortest prefix that looks complete
RepairLoopShortestFirst(lines, i) ==
  LET Candidate(k) == TrimEnd(Join(SubSeq(lines, 1, k)))
      Complete ==
        { k \in 1..i : Len(Candidate(k)) # 0 /\ looksComplete(lines[k]) }
  IN IF Complete = {} THEN NullText
     ELSE SomeText(Candidate(CHOOSE k \in Complete :
                               \A m \in Complete : k <= m))

\* the loop of repairPartialToon, from i down to 0
RECURSIVE RepairLoop(_, _)
RepairLoop(lines, i) ==
  LET Try(partialLines, candidate) ==
        IF Len(candidate) = 0 THEN RepairLoop(lines, i - 1)
        ELSE IF looksComplete(partialLines[Len(partialLines)])
        THEN SomeText(candidate)
        ELSE RepairLoop(lines, i - 1)
  IN IF i < 0 THEN NullText
     ELSE Try(SubSeq(lines, 1, i), TrimEnd(Join(SubSeq(lines, 1, i))))

\* repairPartialToon(text)
repairPartialToon(text) ==
  LET Loop(lines) == RepairLoop(lines, Len(lines))
  IN IF text = <<>> \/ Len(Trim(text)) = 0 THEN NullText
     ELSE Loop(Split(text))

\* toonText: string | undefined
UndefinedText == [defined |-> FALSE, text |-> <<>>]
DefinedText(t) == [defined |-> TRUE, text |-> t]

\* IsUndefinedInput written as !toonText: the empty string counts as undefined
IsUndefinedInputFalsy(toonText) == ~toonText.defined \/ toonText.text = <<>>

\* toonText === undefined
IsUndefinedInput(toonText) == ~toonText.defined

\* ParseFull left out: the text goes to repairPartialToon undecoded
ParseFullSkipped(toonText) ==
  [success |-> FALSE, value |-> VNull, rawValue |-> Undefined,
   error |-> JSONParseError(toonText.text, "skipped")]

\* ParseFull on the trimmed text
ParseFullTrimmed(toonText) == safeParseToon(Trim(toonText.text))

\* the first attempt: safeParseToon({ text: toonText })
ParseFull(toonText) == safeParseToon(toonText.text)

\* repairedText !== null && repairedText !== toonText
RepairUsable(repairedText, toonText) ==
  ~repairedText.isNull /\ repairedText.text # toonText.text

NoResult ==
  [success |-> FALSE, value |-> VNull, rawValue |-> Undefined, error |-> NoError]

VARIABLES secure, safe, partial, orch

vars == <<decoder, secure, safe, partial, orch>>

PartialIdle ==
  [pc |-> "idle", toonText |-> UndefinedText, result |-> NoResult,
   repairedText |-> NullText, state |-> "", value |-> Undefined,
   decoded |-> <<>>]

PartialReturn(p, value, state) ==
  [p EXCEPT !.pc = "done", !.value = value, !.state = state]

\* parsePartialToon(toonText), up to the first await
PartialCall ==
  /\ partial.pc = "idle"
  /\ \E toonText \in {UndefinedText} \cup { DefinedText(t) : t \in Texts } :
       partial' =
         IF IsUndefinedInput(toonText)
         THEN PartialReturn([partial EXCEPT !.toonText = toonText],
                            Undefined, "undefined-input")
         ELSE [partial EXCEPT !.pc = "parse-full", !.toonText = toonText]
  /\ UNCHANGED <<decoder, secure, safe, orch>>

\* let result = await safeParseToon({ text: toonText })
PartialParseFull ==
  /\ partial.pc = "parse-full"
  /\ LET After(result, p) ==
           IF result.success
           THEN PartialReturn([p EXCEPT !.result = result],
                              Defined(result.value), "successful-parse")
           ELSE [p EXCEPT !.result = result, !.pc = "repair"]
     IN partial' =
          After(ParseFull(partial.toonText),
                [partial EXCEPT !.decoded = Append(@, partial.toonText.text)])
  /\ UNCHANGED <<decoder, secure, safe, orch>>

\* const repairedText = repairPartialToon(toonText)
PartialRepair ==
  /\ partial.pc = "repair"
  /\ LET After(repairedText) ==
           IF RepairUsable(repairedText, partial.toonText)
           THEN [partial EXCEPT !.repairedText = repairedText,
                                !.pc = "parse-repaired"]
           ELSE PartialReturn([partial EXCEPT !.repairedText = repairedText],
                              Undefined, "failed-parse")
     IN partial' = After(repairPartialToon(partial.toonText.text))
  /\ UNCHANGED <<decoder, secure, safe, orch>>

\* result = await safeParseToon({ text: repairedText })
PartialParseRepaired ==
  /\ partial.pc = "parse-repaired"
  /\ LET After(result, p) ==
           IF result.success
           THEN PartialReturn([p EXCEPT !.result = result],
                              Defined(result.value), "repaired-parse")
           ELSE PartialReturn([p EXCEPT !.result = result],
                              Undefined, "failed-parse")
     IN partial' =
          After(safeParseToon(partial.repairedText.text),
                [partial EXCEPT !.decoded = Append(@, partial.repairedText.text)])
  /\ UNCHANGED <<decoder, secure, safe, orch>>

\* ------------------------------------------------- a call of secureToonParse
SecureIdle == [called |-> FALSE, text |-> <<>>, out |-> Returns(VNull)]

SecureCall ==
  /\ ~secure.called
  /\ \E text \in Texts :
       secure' = [called |-> TRUE, text |-> text, out |-> secureToonParse(text)]
  /\ UNCHANGED <<decoder, safe, partial, orch>>

\* ---------------------------------------------------- a call of safeParseToon
SafeIdle ==
  [called |-> FALSE, text |-> <<>>, schema |-> NoSchema, result |-> NoResult]

SafeCall ==
  /\ ~safe.called
  /\ \E text \in Texts, schema \in {NoSchema} \cup Schemas :
       safe' = [called |-> TRUE, text |-> text, schema |-> schema,
                result |-> safeParseToonWith(text, schema)]
  /\ UNCHANGED <<decoder, secure, partial, orch>>

\* ------------------------------- parseAndValidateObjectResultWithRepair
CouldNotParse == "No object generated: could not parse the response."
DidNotMatchSchema == "No object generated: response did not match schema."

NoContext == [response |-> "", usage |-> 0, finishReason |-> ""]
Contexts ==
  { [response |-> "res-1", usage |-> 10, finishReason |-> "stop"],
    [response |-> "res-2", usage |-> 20, finishReason |-> "length"] }

NoObjectGeneratedError(message, cause, text, context) ==
  [name |-> "AI_NoObjectGeneratedError", message |-> message, cause |-> cause,
   text |-> text, response |-> context.response, usage |-> context.usage,
   finishReason |-> context.finishReason]

\* an exception of a collaborator (outputStrategy, repairText) itself
CollaboratorError(who) ==
  [name |-> "Error", message |-> who, cause |-> NoError, text |-> <<>>,
   response |-> "", usage |-> 0, finishReason |-> ""]

NoThrown ==
  [name |-> "", message |-> "", cause |-> NoError, text |-> <<>>,
   response |-> "", usage |-> 0, finishReason |-> ""]

\* ParseFailure with the other failure's message
ParseFailureWrongReason(text, parseResult, context) ==
  NoObjectGeneratedError(DidNotMatchSchema, parseResult.error, text, context)

\* if (!parseResult.success) throw new NoObjectGeneratedError({...})
ParseFailure(text, parseResult, context) ==
  NoObjectGeneratedError(CouldNotParse, parseResult.error, text, context)

\* ValidationFailure that throws under the name of the validator's error
ValidationFailureUnwrapped(text, validationError, context) ==
  [NoObjectGeneratedError(DidNotMatchSchema, validationError, text, context)
     EXCEPT !.name = validationError.name]

\* if (!validationResult.success) throw new NoObjectGeneratedError({...})
ValidationFailure(text, validationError, context) ==
  NoObjectGeneratedError(DidNotMatchSchema, validationError, text, context)

\* CanRepair without the test of the cause's class
CanRepairAnyCause(hasRepairText, error) ==
  hasRepairText /\ error.name = "AI_NoObjectGeneratedError"

\* the condition under which the catch block asks repairText
CanRepair(hasRepairText, error) ==
  /\ hasRepairText
  /\ error.name = "AI_NoObjectGeneratedError"
  /\ error.cause.name \in {"AI_JSONParseError", "AI_TypeValidationError"}

\* The texts the orchestrator is called with and repairText answers with.
OrchLineSet ==
  { <<"a", COLON, SP, "a">>,                       \* a: a
    <<"a">>,                                       \* a
    <<"a", COLON, SP, QUOTE>>,                     \* a: "
    <<QUOTE, PROTO, QUOTE, COLON, SP, "a">> }      \* "__proto__": a

OrchTexts ==
  {<<>>} \cup { Join(ls) : ls \in UNION { [1..m -> OrchLineSet] : m \in 1..MaxOrchLines } }

\* safeParseJSON({ text }): any value, or a JSONParseError about the text
JSONValues == { VNull, VObj(<<>>) }
safeParseJSONResults(text) ==
  { [success |-> TRUE, value |-> v, rawValue |-> Defined(v), error |-> NoError]
      : v \in JSONValues }
  \cup { [success |-> FALSE, value |-> VNull, rawValue |-> Undefined,
          error |-> JSONParseError(text, "SyntaxError: JSON")] }

\* outputStrategy.validateFinalResult(value, ...): success with the value as
\* is or transformed, failure with a TypeValidationError or another error,
\* or an exception
Transformed(value) == VObj(<<[k |-> <<"transformed">>, v |-> value]>>)
OtherValidationError(value) ==
  [name |-> "Error", text |-> <<>>, cause |-> "strategy", value |-> value]
validateFinalResultResults(value) ==
  { [outcome |-> "ok", value |-> v, error |-> NoError]
      : v \in {value, Transformed(value)} }
  \cup { [outcome |-> "fail", value |-> VNull, error |-> e]
      : e \in {TypeValidationError(value, "schema"), OtherValidationError(value)} }
  \cup { [outcome |-> "throw", value |-> VNull, error |-> NoError] }

\* repairText({ text, error }): a text, null, or an exception
repairTextResults ==
  { [outcome |-> "text", text |-> t] : t \in OrchTexts }
  \cup { [outcome |-> "null", text |-> <<>>], [outcome |-> "throw", text |-> <<>>] }

OrchIdle ==
  [pc |-> "idle", result |-> <<>>, hasRepairText |-> FALSE, format |-> "json",
   context |-> NoContext, attempt |-> 0, text |-> <<>>, parseResult |-> NoResult,
   error |-> NoThrown, repairedText |-> NullText, returned |-> Undefined,
   thrown |-> NoThrown, calls |-> <<>>, raised |-> <<>>]

\* a record of one call of a collaborator
Called(fn, attempt, text, value, error, outcome, ret) ==
  [fn |-> fn, attempt |-> attempt, text |-> text, value |-> value,
   error |-> error, outcome |-> outcome, ret |-> ret, out |-> VNull]

\* Raise with the second call inside a try block of its own: caught again
RaiseCaughtAgain(o, error) ==
  [o EXCEPT !.raised = Append(@, [attempt |-> o.attempt, error |-> error]),
            !.pc = "catch", !.error = error]

\* Raise that throws the first attempt's error after the second attempt
RaiseFirstError(o, error) ==
  IF o.attempt = 1
  THEN [o EXCEPT !.raised = Append(@, [attempt |-> o.attempt, error |-> error]),
                 !.pc = "catch", !.error = error]
  ELSE [o EXCEPT !.raised = Append(@, [attempt |-> o.attempt, error |-> o.error]),
                 !.pc = "thrown", !.thrown = o.error]

\* where an exception of parseAndValidateObjectResult goes: the first call is
\* inside the try block, the second inside the catch block
Raise(o, error) ==
  LET r == [o EXCEPT !.raised = Append(@, [attempt |-> o.attempt, error |-> error])]
  IN IF o.attempt = 1
     THEN [r EXCEPT !.pc = "catch", !.error = error]
     ELSE [r EXCEPT !.pc = "thrown", !.thrown = error]

\* AfterRepair written as repairedText ?? result: null retries the original
AfterRepairNullRetries(o, answer) ==
  IF answer.outcome = "throw"
  THEN [o EXCEPT !.pc = "thrown", !.thrown = CollaboratorError("repairText")]
  ELSE IF answer.outcome = "null"
  THEN [o EXCEPT !.pc = "parse", !.attempt = 2, !.text = o.result]
  ELSE [o EXCEPT !.pc = "parse", !.attempt = 2, !.text = answer.text,
                 !.repairedText = SomeText(answer.text)]

\* what the catch block does when repairText answers
AfterRepair(o, answer) ==
  IF answer.outcome = "throw"
  THEN [o EXCEPT !.pc = "thrown", !.thrown = CollaboratorError("repairText")]
  ELSE IF answer.outcome = "null"
  THEN [o EXCEPT !.pc = "thrown", !.thrown = o.error]
  ELSE [o EXCEPT !.pc = "parse", !.attempt = 2, !.text = answer.text,
                 !.repairedText = SomeText(answer.text)]

\* parseAndValidateObjectResultWithRepair(result, outputStrategy, repairText,
\* format, context), up to the first await
OrchCall ==
  /\ orch.pc = "idle"
  /\ \E result \in OrchTexts, hasRepairText \in BOOLEAN,
        format \in {"json", "toon"}, context \in Contexts :
       orch' = [orch EXCEPT !.pc = "parse", !.result = result,
                            !.hasRepairText = hasRepairText, !.format = format,
                            !.context = context, !.attempt = 1, !.text = result]
  /\ UNCHANGED <<decoder, secure, safe, partial>>

\* AfterParse without the check of parseResult.success: a failed parse is
\* validated
AfterParseUnchecked(o, parseResult) ==
  [o EXCEPT !.parseResult = parseResult,
            !.calls = Append(@, Called("parse", o.attempt, o.text,
                         parseResult.value, parseResult.error,
                         IF parseResult.success THEN "ok" ELSE "fail",
                         <<>>)),
            !.pc = "validate"]

\* what follows the parse of an attempt
AfterParse(o, parseResult) ==
  LET c == [o EXCEPT !.parseResult = parseResult,
                     !.calls = Append(@, Called("parse", o.attempt, o.text,
                                  parseResult.value, parseResult.error,
                                  IF parseResult.success THEN "ok" ELSE "fail",
                                  <<>>))]
  IN IF ~parseResult.success
     THEN Raise(c, ParseFailure(o.text, parseResult, o.context))
     ELSE [c EXCEPT !.pc = "validate"]

\* await safeParseToon({ text: result })
OrchParseToon ==
  /\ orch.pc = "parse" /\ orch.format = "toon"
  /\ orch' = AfterParse(orch, safeParseToon(orch.text))
  /\ UNCHANGED <<decoder, secure, safe, partial>>

\* await safeParseJSON({ text: result })
OrchParseJSON ==
  /\ orch.pc = "parse" /\ orch.format = "json"
  /\ \E parseResult \in safeParseJSONResults(orch.text) :
       orch' = AfterParse(orch, parseResult)
  /\ UNCHANGED <<decoder, secure, safe, partial>>

\* what follows the validation of an attempt
AfterValidate(o, validationResult) ==
  LET c == [o EXCEPT !.calls = Append(@,
                      [Called("validateFinalResult", o.attempt, o.text,
                              o.parseResult.value, validationResult.error,
                              validationResult.outcome, <<>>)
                         EXCEPT !.out = validationResult.value])]
  IN IF validationResult.outcome = "throw"
     THEN Raise(c, CollaboratorError("validateFinalResult"))
     ELSE IF validationResult.outcome = "fail"
     THEN Raise(c, ValidationFailure(o.text, validationResult.error, o.context))
     ELSE [c EXCEPT !.pc = "returned", !.returned = Defined(validationResult.value)]

\* await outputStrategy.validateFinalResult(parseResult.value, {...})
OrchValidate ==
  /\ orch.pc = "validate"
  /\ \E validationResult \in validateFinalResultResults(orch.parseResult.value) :
       orch' = AfterValidate(orch, validationResult)
  /\ UNCHANGED <<decoder, secure, safe, partial>>

\* catch (error): ask repairText, or throw the error again
OrchCatch ==
  /\ orch.pc = "catch"
  /\ orch' = IF CanRepair(orch.hasRepairText, orch.error)
             THEN [orch EXCEPT !.pc = "repair"]
             ELSE [orch EXCEPT !.pc = "thrown", !.thrown = orch.error]
  /\ UNCHANGED <<decoder, secure, safe, partial>>

\* await repairText({ text: result, error: error.cause })
OrchRepair ==
  /\ orch.pc = "repair"
  /\ \E answer \in repairTextResults :
       orch' = AfterRepair(
                 [orch EXCEPT !.calls = Append(@, Called("repairText",
                                  orch.attempt, orch.result, VNull,
                                  orch.error.cause, answer.outcome, answer.text))],
                 answer)
  /\ UNCHANGED <<decoder, secure, safe, partial>>

\* --------------------------------------------------------- specifications
Init ==
  /\ decoder \in DecoderOptions
  /\ secure = SecureIdle
  /\ safe = SafeIdle
  /\ partial = PartialIdle
  /\ orch = OrchIdle

NextSecure == SecureCall
NextSafe == SafeCall
NextPartial ==
  PartialCall \/ PartialParseFull \/ PartialRepair \/ PartialParseRepaired
NextOrch ==
  OrchCall \/ OrchParseToon \/ OrchParseJSON \/ OrchValidate \/ OrchCatch
    \/ OrchRepair

SpecSecure == Init /\ [][NextSecure]_vars
SpecSafe == Init /\ [][NextSafe]_vars
SpecPartial == Init /\ [][NextPartial]_vars
SpecOrch == Init /\ [][NextOrch]_vars

Next == NextSecure \/ NextSafe \/ NextPartial \/ NextOrch
Spec == Init /\ [][Next]_vars

\* ------------------------------------------------------------- the claims
\* the calls of one collaborator, and the parse and validate calls of an attempt
CallsOf(fn) == SelectSeq(orch.calls, LAMBDA c : c.fn = fn)
AttemptCalls(k) ==
  SelectSeq(orch.calls, LAMBDA c : c.attempt = k /\ c.fn # "repairText")
LastCall(k) == AttemptCalls(k)[Len(AttemptCalls(k))]
AttemptFailed(k) ==
  AttemptCalls(k) # <<>> /\ LastCall(k).outcome \in {"fail", "throw"}

\* the error an attempt raises, read off the collaborator call that failed
ErrorOfAttempt(k) ==
  IF LastCall(k).outcome = "throw"
  THEN CollaboratorError(LastCall(k).fn)
  ELSE NoObjectGeneratedError(
         IF LastCall(k).fn = "parse" THEN CouldNotParse ELSE DidNotMatchSchema,
         LastCall(k).error, LastCall(k).text, orch.context)

\* C1: in a call of parseAndValidateObjectResultWithRepair, whatever the
\* outcomes of decode and validation on the original and on the repaired
\* text, repairText is invoked at most once.
C1_RepairAtMostOnce == Len(CallsOf("repairText")) <= 1

\* the second attempt has failed, after the one repair
C1_Witness ==
  /\ orch.pc = "thrown" /\ orch.attempt = 2 /\ AttemptFailed(2)
  /\ Len(CallsOf("repairText")) = 1

\* C2: when the first attempt fails with a JSONParseError or
\* TypeValidationError cause and repairText returns null, the error thrown is
\* the first attempt's (its cause, the original text), repairText was invoked
\* exactly once and nothing is parsed or validated a second time.
C2_RepairDeclined ==
  (/\ orch.pc \in {"parse", "validate", "returned", "thrown"}
   /\ CallsOf("repairText") # <<>>
   /\ CallsOf("repairText")[1].outcome = "null")
  => /\ orch.pc = "thrown"
     /\ orch.thrown = ErrorOfAttempt(1)
     /\ orch.thrown.name = "AI_NoObjectGeneratedError"
     /\ orch.thrown.cause.name \in {"AI_JSONParseError", "AI_TypeValidationError"}
     /\ orch.thrown.text = orch.result
     /\ Len(CallsOf("repairText")) = 1
     /\ Len(CallsOf("parse")) = 1
     /\ Len(CallsOf("validateFinalResult")) <= 1
     /\ AttemptCalls(2) = <<>>

C2_Witness ==
  /\ orch.pc = "thrown"
  /\ CallsOf("repairText") # <<>>
  /\ CallsOf("repairText")[1].outcome = "null"
  /\ orch.thrown.cause.name = "AI_TypeValidationError"

\* C3: when repairText returns a text and the decode or the validation of
\* that text fails, the error thrown is a NoObjectGeneratedError whose cause is
\* the second attempt's failure and whose text is the repaired text, and
\* repairText is not invoked again.
C3_SecondFailureIsTerminal ==
  (/\ orch.attempt = 2 /\ AttemptFailed(2) /\ LastCall(2).outcome = "fail")
  => /\ orch.pc = "thrown"
     /\ orch.thrown.name = "AI_NoObjectGeneratedError"
     /\ orch.thrown.cause = LastCall(2).error
     /\ orch.thrown.text = CallsOf("repairText")[1].ret
     /\ orch.thrown = ErrorOfAttempt(2)
     /\ Len(CallsOf("repairText")) = 1

\* the second attempt failed for another cause than the first
C3_Witness ==
  /\ orch.pc = "thrown" /\ orch.attempt = 2 /\ AttemptFailed(2)
  /\ LastCall(2).outcome = "fail"
  /\ LastCall(2).error # LastCall(1).error
  /\ orch.thrown.cause # orch.error.cause

\* C4, as stated: whenever the call does not return a value, the error it
\* raises is a NoObjectGeneratedError, whatever the decoder, the validator and
\* repairText do (a repairText that itself fails included).
C4_Original ==
  orch.pc = "thrown" => orch.thrown.name = "AI_NoObjectGeneratedError"

CollaboratorThrew == \E i \in 1..Len(orch.calls) : orch.calls[i].outcome = "throw"

\* C4, amended: the call ends by returning a value or by throwing; what it
\* throws is a NoObjectGeneratedError unless validateFinalResult or repairText
\* itself threw, and then that exception escapes unchanged.
C4_UniformUnlessCollaboratorThrows ==
  /\ orch.returned.defined <=> orch.pc = "returned"
  /\ orch.thrown.name # "" <=> orch.pc = "thrown"
  /\ orch.pc = "thrown" =>
       IF CollaboratorThrew
       THEN /\ orch.calls[Len(orch.calls)].outcome = "throw"
            /\ orch.calls[Len(orch.calls)].fn \in
                 {"validateFinalResult", "repairText"}
            /\ orch.thrown = CollaboratorError(orch.calls[Len(orch.calls)].fn)
       ELSE orch.thrown.name = "AI_NoObjectGeneratedError"

\* a validation failure ended the call, no collaborator threw
C4_Witness ==
  /\ orch.pc = "thrown" /\ ~CollaboratorThrew
  /\ orch.thrown.message = DidNotMatchSchema

\* C5: repairText is invoked only if it was supplied and the first attempt's
\* cause is a JSONParseError or a TypeValidationError, and then with the
\* original text and that cause; otherwise the first attempt's error is thrown
\* unchanged and there is no second attempt.
C5_RepairGate ==
  /\ \A i \in 1..Len(orch.calls) :
       orch.calls[i].fn = "repairText" =>
         /\ orch.hasRepairText
         /\ AttemptFailed(1) /\ LastCall(1).outcome = "fail"
         /\ LastCall(1).error.name \in
              {"AI_JSONParseError", "AI_TypeValidationError"}
         /\ orch.calls[i].text = orch.result
         /\ orch.calls[i].error = LastCall(1).error
  /\ (/\ orch.pc \in {"repair", "parse", "validate", "returned", "thrown"}
      /\ AttemptFailed(1)
      /\ \/ ~orch.hasRepairText
         \/ LastCall(1).outcome = "throw"
         \/ LastCall(1).error.name \notin
              {"AI_JSONParseError", "AI_TypeValidationError"})
     => /\ orch.pc = "thrown"
        /\ orch.thrown = ErrorOfAttempt(1)
        /\ CallsOf("repairText") = <<>>
        /\ AttemptCalls(2) = <<>>

\* repairText was supplied, and the cause's class kept it from being asked
C5_Witness ==
  /\ orch.pc = "thrown" /\ orch.hasRepairText
  /\ AttemptFailed(1) /\ LastCall(1).outcome = "fail"
  /\ LastCall(1).error.name = "Error"
  /\ CallsOf("repairText") = <<>>

\* C6: every NoObjectGeneratedError an attempt raises has the message
\* "could not parse" exactly when that attempt's decode failed and "did not
\* match schema" exactly when its decode succeeded and its validation failed,
\* and carries that failure's cause, the text the attempt decoded and the
\* caller's response, usage and finish reason.
C6_TerminalErrorContent ==
  \A i \in 1..Len(orch.raised) :
    LET e == orch.raised[i].error
        calls == AttemptCalls(orch.raised[i].attempt)
        parse == calls[1]
    IN /\ i = orch.raised[i].attempt
       /\ calls # <<>> /\ parse.fn = "parse"
       /\ e.name = "AI_NoObjectGeneratedError" =>
            /\ (e.message = CouldNotParse) <=> (parse.outcome = "fail")
            /\ (e.message = DidNotMatchSchema) <=>
                 (/\ parse.outcome = "ok" /\ Len(calls) = 2
                  /\ calls[2].fn = "validateFinalResult" /\ calls[2].outcome = "fail")
            /\ e.cause = calls[Len(calls)].error
            /\ e.text = parse.text
            /\ e.text = (IF i = 1 THEN orch.result ELSE orch.repairedText.text)
            /\ e.response = orch.context.response
            /\ e.usage = orch.context.usage
            /\ e.finishReason = orch.context.finishReason
       /\ e.name # "AI_NoObjectGeneratedError" =>
            calls[Len(calls)].outcome = "throw"

\* a decode failure, then a validation failure of the repaired text
C6_Witness ==
  /\ Len(orch.raised) = 2
  /\ orch.raised[1].error.message = CouldNotParse
  /\ orch.raised[2].error.message = DidNotMatchSchema
  /\ orch.raised[2].error.text # orch.raised[1].error.text

\* a node of the tree owns `__proto__`, or owns `constructor` with a value
\* that owns `prototype`
RECURSIVE OwnsForbidden(_)
OwnsForbidden(node) ==
  /\ node.t = "object"
  /\ \/ HasOwn(node, PROTO)
     \/ HasOwn(node, CONSTRUCTOR) /\ HasOwn(Get(node, CONSTRUCTOR), PROTOTYPE)
     \/ \E i \in 1..Len(node.kv) : OwnsForbidden(node.kv[i].v)

\* C7: secureToonParse fails with the forbidden-property SyntaxError for
\* every text whose decoded tree has, at any depth, a node that owns
\* `__proto__` or that owns `constructor` with a value owning `prototype`; it
\* never returns such a tree.
C7_ForbiddenTreeRejected ==
  (secure.called /\ Decode(secure.text).ok
     /\ OwnsForbidden(Decode(secure.text).v))
  => secure.out = Throws(ForbiddenProperty)

C9_PartialOutcome ==
  partial.pc = "done" =>
    /\ partial.state \in
         {"undefined-input", "successful-parse", "repaired-parse", "failed-parse"}
    /\ partial.value.defined <=>
         partial.state \in {"successful-parse", "repaired-parse"}
    /\ (partial.state = "undefined-input") <=> ~partial.toonText.defined
    /\ partial.toonText.defined =>
         /\ partial.decoded # <<>>
         /\ partial.decoded[1] = partial.toonText.text

\* an empty or whitespace-only text went through the decoder
C9_Witness ==
  /\ partial.pc = "done" /\ partial.toonText.defined
  /\ Trim(partial.toonText.text) = <<>>
  /\ partial.state # "undefined-input"
  /\ partial.decoded # <<>>

\* C10: the state is successful-parse exactly when the whole, unchanged text
\* decodes (secureToonParse does not throw), and the value is then that of
\* the whole decode.
C10_SuccessfulIffFullDecode ==
  (partial.pc = "done" /\ partial.toonText.defined) =>
    /\ (partial.state = "successful-parse") <=>
         ~secureToonParse(partial.toonText.text).threw
    /\ partial.state = "successful-parse" =>
         partial.value = Defined(secureToonParse(partial.toonText.text).value)

\* one text that decodes and yields its value, here an object
C10_Witness ==
  /\ partial.pc = "done" /\ partial.state = "successful-parse"
  /\ partial.value.v.t = "object" /\ partial.value.v.kv # <<>>

\* the prefix of i whole leading lines of the text, joined and trimmed at
\* the end
CandidateOf(text, i) == TrimEnd(Join(SubSeq(Split(text), 1, i)))

\* the prefixes the backward search considers: not empty, the last line
\* looks complete
IsCandidate(text, i) ==
  /\ i \in 1..Len(Split(text))
  /\ CandidateOf(text, i) # <<>>
  /\ looksComplete(Split(text)[i])

\* C11: failed-parse is returned only when no candidate prefix of the text
\* (a prefix of whole lines whose last line looks complete, the whole text
\* included) decodes: a candidate that does not decode sends the search on to
\* the shorter prefixes.
C11_FailedOnlyIfNoCandidateDecodes ==
  (partial.pc = "done" /\ partial.state = "failed-parse") =>
    \A i \in 1..Len(Split(partial.toonText.text)) :
      IsCandidate(partial.toonText.text, i) =>
        ~safeParseToon(CandidateOf(partial.toonText.text, i)).success

\* the longest run of whitespace a truncation is taken to have cut off
MaxTail == 2

\* the runs of whitespace and newlines of 1..MaxTail characters
WhitespaceTails == UNION { [1..n -> {SP, NL}] : n \in 1..MaxTail }

\* the text is a truncation of a text that decodes, and only whitespace or
\* newlines are missing
MissesOnlyWhitespace(text) ==
  \E tail \in WhitespaceTails : safeParseToon(text \o tail).success

\* C12: a text that lacks only trailing whitespace or newlines of a text
\* that decodes yields successful-parse or repaired-parse with a defined
\* value, never failed-parse.
C12_TruncatedWhitespaceNeverFails ==
  (/\ partial.pc = "done" /\ partial.toonText.defined
   /\ MissesOnlyWhitespace(partial.toonText.text)) =>
    /\ partial.state \in {"successful-parse", "repaired-parse"}
    /\ partial.value.defined

\* a two-line text cut inside the indentation of its second line
C12_Witness ==
  /\ partial.pc = "done" /\ partial.toonText.defined
  /\ MissesOnlyWhitespace(partial.toonText.text)
  /\ Len(partial.toonText.text) >= 2
  /\ partial.toonText.text[Len(partial.toonText.text)] = SP
  /\ partial.toonText.text[Len(partial.toonText.text) - 1] = NL
  /\ partial.state \in {"successful-parse", "repaired-parse"}
  /\ partial.value.defined
  /\ partial.value.v.t = "object" /\ partial.value.v.kv # <<>>

\* C13: a successful result of safeParseToon has as rawValue the value
\* secureToonParse decoded, which is the value the validator was given,
\* whatever the validator made of it; without a schema value and rawValue
\* are both the decoded value; a failure result has rawValue undefined.
C13_RawValueIsDecodedValue ==
  safe.called =>
    /\ safe.result.success =>
         /\ ~secureToonParse(safe.text).threw
         /\ safe.result.rawValue = Defined(secureToonParse(safe.text).value)
    /\ (safe.result.success /\ safe.schema # NoSchema) =>
         safe.result.value =
           SchemaValidate(safe.schema, safe.result.rawValue.v).value
    /\ (safe.result.success /\ safe.schema = NoSchema) =>
         safe.result.value = secureToonParse(safe.text).value
    /\ ~safe.result.success => safe.result.rawValue = Undefined

\* a validator that transforms: value and rawValue differ
C13_Witness ==
  /\ safe.called /\ safe.result.success /\ safe.schema = "coerce"
  /\ safe.result.rawValue.defined
  /\ safe.result.rawValue.v.t = "object" /\ safe.result.rawValue.v.kv # <<>>
  /\ safe.result.value # safe.result.rawValue.v

\* the first attempt has ended with a value of the validator
FirstAttemptSucceeded ==
  /\ AttemptCalls(1) # <<>>
  /\ LastCall(1).fn = "validateFinalResult" /\ LastCall(1).outcome = "ok"

\* C14: the steps of an attempt are sequential. validateFinalResult is called
\* only right after the parse of the same attempt and text has succeeded, with
\* the value parsed; repairText is called only after the first attempt has
\* failed; and when the first attempt succeeds the validator's value is
\* returned and repairText is never called.
C14_StepsSequential ==
  /\ \A i \in 1..Len(orch.calls) :
       /\ orch.calls[i].fn = "validateFinalResult" =>
            /\ i > 1
            /\ orch.calls[i - 1].fn = "parse"
            /\ orch.calls[i - 1].outcome = "ok"
            /\ orch.calls[i - 1].attempt = orch.calls[i].attempt
            /\ orch.calls[i - 1].text = orch.calls[i].text
            /\ orch.calls[i - 1].value = orch.calls[i].value
       /\ orch.calls[i].fn = "repairText" =>
            /\ i > 1
            /\ \A j \in 1..(i - 1) : orch.calls[j].attempt = 1
            /\ orch.calls[i - 1].outcome = "fail"
       /\ (orch.calls[i].fn = "parse" /\ orch.calls[i].attempt = 2) =>
            /\ i > 1
            /\ orch.calls[i - 1].fn = "repairText"
  /\ FirstAttemptSucceeded =>
       /\ orch.pc = "returned"
       /\ orch.returned = Defined(LastCall(1).out)
       /\ CallsOf("repairText") = <<>>
       /\ Len(orch.calls) = 2

\* the first attempt succeeds although a repairText was supplied, and the
\* validator has transformed the value parsed
C14_Witness ==
  /\ FirstAttemptSucceeded /\ orch.hasRepairText
  /\ orch.pc = "returned"
  /\ orch.returned.v # orch.calls[1].value
  /\ orch.calls[1].outcome = "ok"

\* the number of lines of the longest candidate prefix of the text, 0 if
\* there is none
LongestCandidate(text) ==
  LET Complete == { i \in 1..Len(Split(text)) : IsCandidate(text, i) }
  IN IF Complete = {} THEN 0
     ELSE CHOOSE i \in Complete : \A j \in Complete : j <= i

IsPrefix(s, t) == Len(s) <= Len(t) /\ SubSeq(t, 1, Len(s)) = s

\* C15: in the state repaired-parse the value is the decode of one candidate,
\* the longest prefix of whole leading lines (joined, trimmed at the end, not
\* empty) whose last line looks complete; the candidate is a prefix of the
\* text and differs from it, and besides the text itself nothing else has
\* been decoded.
C15_RepairedFromLongestCandidate ==
  (partial.pc = "done" /\ partial.state = "repaired-parse") =>
    /\ LongestCandidate(partial.toonText.text) > 0
    /\ LET candidate ==
             CandidateOf(partial.toonText.text,
                         LongestCandidate(partial.toonText.text))
       IN /\ partial.decoded = <<partial.toonText.text, candidate>>
          /\ safeParseToon(candidate).success
          /\ partial.value = Defined(safeParseToon(candidate).value)
          /\ IsPrefix(candidate, partial.toonText.text)
          /\ candidate # partial.toonText.text

\* a second line cut inside a string is dropped and the first line decoded
C15_Witness ==
  /\ partial.pc = "done" /\ partial.state = "repaired-parse"
  /\ Len(Split(partial.toonText.text)) = 2
  /\ ~looksComplete(Split(partial.toonText.text)[2])
  /\ partial.decoded = <<partial.toonText.text, Split(partial.toonText.text)[1]>>
  /\ partial.value.defined /\ partial.value.v.t = "object"

====
